---- MODULE Spec2Model ----
(***************************************************************************)
(* Model of src/index.js: an Express application with four POST routes     *)
(* that relay a prompt (and, on the media routes, an uploaded file that    *)
(* multer saved under uploads/) to the Gemini client and answer with JSON. *)
(*                                                                         *)
(* JavaScript runs a handler without interruption between two awaits, so   *)
(* one action is one such run: from the start of the handler to its first  *)
(* await, and from the settlement of an awaited promise to the next await  *)
(* or to the end of the handler (catch and finally blocks included).       *)
(***************************************************************************)
EXTENDS Integers, Sequences, FiniteSets, TLC

\* ---- bounds -------------------------------------------------------------
\* number of requests the server handles, possibly at the same time
NumReqs == 2

Reqs == 1..NumReqs

\* ---- values -------------------------------------------------------------
\* the JavaScript value undefined (an absent body field, a response without text)
Undefined == "<undefined>"

Routes == {"/generate-text", "/generate-from-image",
           "/generate-from-document", "/generate-from-audio"}
MediaRoutes == Routes \ {"/generate-text"}

\* prompt field of the request body: absent, empty, or a text
Prompts == {Undefined, "", "Apa ini?"}
\* result.text of a generateContent call that fulfilled
Texts == {"Seekor kucing.", Undefined}
\* message of the error an awaited or synchronous call raised
Msgs == {"fetch failed", "quota exceeded"}

NoReq == [route |-> "none", prompt |-> Undefined, hasFile |-> FALSE]
NoResp == [status |-> 0, body |-> <<>>]

\* multer({dest: 'uploads/'}) stores each upload under a name of its own
ScratchPath(r) == r

\* req.file.mimetype, as declared by the client for the route's field
MimeType(route) ==
  CASE route = "/generate-from-image" -> "image/png"
    [] route = "/generate-from-document" -> "application/pdf"
    [] route = "/generate-from-audio" -> "audio/mpeg"
    [] OTHER -> Undefined

\* the file handle genAI.files.upload fulfils with
RemoteFile(p) == [uri |-> <<"files", p>>, mimeType |-> "image/png"]

VARIABLES req, pc, disk, resp, calls, uploadArgs, genArgs, fsOps

vars == <<req, pc, disk, resp, calls, uploadArgs, genArgs, fsOps>>

\* ---- pure helpers -------------------------------------------------------
\* a check that only tests prompt === undefined
TruthyDefined(v) == v # Undefined

\* JavaScript truthiness of a string-or-undefined value (!prompt is ~Truthy)
Truthy(v) == v # Undefined /\ v # ""

\* res.json(obj): JSON.stringify leaves out the keys whose value is undefined
JsonBody(obj) == [k \in {x \in DOMAIN obj : obj[x] # Undefined} |-> obj[k]]

\* const { prompt = <default> } = req.body
DefaultPrompt(route) ==
  CASE route = "/generate-from-image" -> "Jelaskan gambar yang diunggah ini."
    [] route = "/generate-from-document" -> "Jelaskan dokumen yang diunggah ini."
    [] route = "/generate-from-audio" -> "Jelaskan audio yang diunggah ini."
    [] OTHER -> Undefined

\* the default applied as in req.body.prompt || <default>
PromptOfOr(route, p) ==
  IF route \in MediaRoutes /\ (p = Undefined \/ p = "") THEN DefaultPrompt(route) ELSE p

PromptOf(route, p) ==
  IF route \in MediaRoutes /\ p = Undefined THEN DefaultPrompt(route) ELSE p

\* message of the 400 response of each route
MissingInput(route) ==
  CASE route = "/generate-text" -> "Prompt diperlukan."
    [] route = "/generate-from-image" -> "File gambar diperlukan."
    [] route = "/generate-from-document" -> "File dokumen diperlukan."
    [] route = "/generate-from-audio" -> "File audio diperlukan."

\* buffer.toString('base64') of the bytes stored at path p
Base64(p) == <<"base64", p>>

\* { inlineData: { data, mimeType } }
InlinePart(p, mt) == [inlineData |-> [data |-> Base64(p), mimeType |-> mt]]

\* createPartFromUri(uri, mimeType)
createPartFromUri(uri, mt) == [fileData |-> [fileUri |-> uri, mimeType |-> mt]]

\* createUserContent([prompt, part]): a string becomes a text part
createUserContent(prompt, part) ==
  [role |-> "user", parts |-> << [text |-> prompt], part >>]

\* argument of genAI.models.generateContent
GenerateRequest(contents) == [model |-> "gemini-2.0-flash", contents |-> contents]

\* ---- response and cleanup steps -----------------------------------------
\* res.json(obj) without res.status(s)
RespondOk(r, s, obj) == resp' = [resp EXCEPT ![r] = [status |-> 200, body |-> JsonBody(obj)]]

\* res.status(s).json(obj)
Respond(r, s, obj) == resp' = [resp EXCEPT ![r] = [status |-> s, body |-> JsonBody(obj)]]

\* a file check that is skipped when a prompt was supplied
FileMissingPromptless(r) == ~req[r].hasFile /\ req[r].prompt = Undefined

\* !req.file
FileMissing(r) == ~req[r].hasFile

\* the condition of the finally block: req.file && fs.existsSync(req.file.path)
MustUnlink(r) == req[r].hasFile /\ ScratchPath(r) \in disk

\* a cleanup that empties the uploads/ directory
UnlinkAll(d, p) == {}

\* fs.unlinkSync(path) when it completes
Unlink(d, p) == d \ {p}

\* the cleanup placed at the end of the try block instead of in finally
FinallyOnSuccess(r, ops, unlinkRaises) ==
  /\ disk' = IF MustUnlink(r) /\ ~unlinkRaises /\ resp'[r].status = 200
             THEN Unlink(disk, ScratchPath(r)) ELSE disk
  /\ fsOps' = [fsOps EXCEPT ![r] = ops]
  /\ pc' = [pc EXCEPT ![r] =
        IF MustUnlink(r) /\ unlinkRaises /\ resp'[r].status = 200 THEN "threw" ELSE "done"]

\* the finally block of a media handler; unlinkRaises: fs.unlinkSync throws
Finally(r, ops, unlinkRaises) ==
  /\ disk' = IF MustUnlink(r) /\ ~unlinkRaises THEN Unlink(disk, ScratchPath(r)) ELSE disk
  /\ fsOps' = [fsOps EXCEPT ![r] =
        IF MustUnlink(r)
        THEN ops \o << [op |-> "existsSync", path |-> ScratchPath(r)],
                       [op |-> "unlinkSync", path |-> ScratchPath(r)] >>
        ELSE ops \o << [op |-> "existsSync", path |-> ScratchPath(r)] >>]
  /\ pc' = [pc EXCEPT ![r] = IF MustUnlink(r) /\ unlinkRaises THEN "threw" ELSE "done"]

Init ==
  /\ req = [r \in Reqs |-> NoReq]
  /\ pc = [r \in Reqs |-> "idle"]
  /\ disk = {}
  /\ resp = [r \in Reqs |-> NoResp]
  /\ calls = [r \in Reqs |-> <<>>]
  /\ uploadArgs = [r \in Reqs |-> <<>>]
  /\ genArgs = [r \in Reqs |-> <<>>]
  /\ fsOps = [r \in Reqs |-> <<>>]

\* ---- middleware ---------------------------------------------------------
\* express.json() / upload.single(field): the request reaches its route with
\* req.body parsed and, on a media route with a file under the route's field,
\* the file stored in uploads/ and described by req.file
Arrive(r, route, prompt, hasFile) ==
  /\ pc[r] = "idle"
  /\ hasFile => route \in MediaRoutes
  /\ req' = [req EXCEPT ![r] = [route |-> route, prompt |-> prompt, hasFile |-> hasFile]]
  /\ pc' = [pc EXCEPT ![r] = "arrived"]
  /\ disk' = IF hasFile THEN disk \cup {ScratchPath(r)} ELSE disk
  /\ UNCHANGED <<resp, calls, uploadArgs, genArgs, fsOps>>

\* ---- calls to the outside -------------------------------------------------
\* entries of calls[r]: a call when it is made, and its outcome when it settles
Call(op) == [ev |-> "call", op |-> op, val |-> Undefined]
Raised(op, m) == [ev |-> "raised", op |-> op, val |-> m]
Returned(op, v) == [ev |-> "returned", op |-> op, val |-> v]

\* fs.readFileSync(p) on disk d: fails when the file is missing, or with the
\* fault the file system reports (Undefined: no fault)
ReadFile(d, p, fault) ==
  IF p \notin d THEN "ENOENT: no such file or directory" ELSE fault

\* await genAI.models.generateContent({model, contents}): the call is made
\* and the handler is suspended
CallGenerate(r, cs, contents) ==
  /\ calls' = [calls EXCEPT ![r] = cs \o << Call("generateContent") >>]
  /\ genArgs' = [genArgs EXCEPT ![r] = Append(@, GenerateRequest(contents))]
  /\ pc' = [pc EXCEPT ![r] = "awaitGenerate"]

\* ---- POST /generate-text -------------------------------------------------
GenerateText(r) ==
  /\ pc[r] = "arrived"
  /\ req[r].route = "/generate-text"
  /\ IF ~Truthy(req[r].prompt)
     THEN /\ Respond(r, 400, [error |-> MissingInput(req[r].route)])
          /\ pc' = [pc EXCEPT ![r] = "done"]
          /\ UNCHANGED <<calls, genArgs>>
     ELSE /\ CallGenerate(r, calls[r], req[r].prompt)
          /\ UNCHANGED resp
  /\ UNCHANGED <<req, disk, uploadArgs, fsOps>>

\* ---- POST /generate-from-image -------------------------------------------
\* from the start of the handler to await genAI.files.upload(...)
GenerateFromImage(r) ==
  /\ pc[r] = "arrived"
  /\ req[r].route = "/generate-from-image"
  /\ IF FileMissing(r)
     THEN /\ Respond(r, 400, [error |-> MissingInput(req[r].route)])
          /\ pc' = [pc EXCEPT ![r] = "done"]
          /\ UNCHANGED <<calls, uploadArgs>>
     ELSE /\ calls' = [calls EXCEPT ![r] = Append(@, Call("uploadFile"))]
          /\ uploadArgs' = [uploadArgs EXCEPT ![r] =
                Append(@, [file |-> ScratchPath(r),
                           config |-> [mimeType |-> MimeType(req[r].route)]])]
          /\ pc' = [pc EXCEPT ![r] = "awaitUpload"]
          /\ UNCHANGED resp
  /\ UNCHANGED <<req, disk, genArgs, fsOps>>

\* the upload fulfilled: build the contents and call generateContent
UploadReturns(r) ==
  /\ pc[r] = "awaitUpload"
  /\ LET image == RemoteFile(ScratchPath(r))
         prompt == PromptOf(req[r].route, req[r].prompt)
         contents == << createUserContent(prompt, createPartFromUri(image.uri, image.mimeType)) >>
     IN CallGenerate(r, Append(calls[r], Returned("uploadFile", "file")), contents)
  /\ UNCHANGED <<req, disk, resp, uploadArgs, fsOps>>

\* a handler that uploads a second time when the first upload rejected
UploadRaisesRetry(r, m, unlinkRaises) ==
  /\ pc[r] = "awaitUpload"
  /\ Len(uploadArgs[r]) < 2
  /\ calls' = [calls EXCEPT ![r] = @ \o << Raised("uploadFile", m), Call("uploadFile") >>]
  /\ uploadArgs' = [uploadArgs EXCEPT ![r] = Append(@, uploadArgs[r][1])]
  /\ UNCHANGED <<req, pc, disk, resp, genArgs, fsOps>>

\* the upload rejected with an error of message m: catch, then finally
UploadRaises(r, m, unlinkRaises) ==
  /\ pc[r] = "awaitUpload"
  /\ calls' = [calls EXCEPT ![r] = Append(@, Raised("uploadFile", m))]
  /\ Respond(r, 500, [error |-> m])
  /\ Finally(r, fsOps[r], unlinkRaises)
  /\ UNCHANGED <<req, uploadArgs, genArgs>>

\* ---- POST /generate-from-document, POST /generate-from-audio -------------
\* from the start of the handler to await genAI.models.generateContent(...)
InlineHandler(r, fault, unlinkRaises) ==
  /\ pc[r] = "arrived"
  /\ IF FileMissing(r)
     THEN /\ Respond(r, 400, [error |-> MissingInput(req[r].route)])
          /\ pc' = [pc EXCEPT ![r] = "done"]
          /\ UNCHANGED <<calls, genArgs, disk, fsOps>>
     ELSE LET path == ScratchPath(r)
              rd == ReadFile(disk, path, fault)
              ops == Append(fsOps[r], [op |-> "readFileSync", path |-> path])
              prompt == PromptOf(req[r].route, req[r].prompt)
              part == InlinePart(path, MimeType(req[r].route))
          IN IF rd # Undefined
             THEN /\ calls' = [calls EXCEPT ![r] = Append(@, Raised("readFileSync", rd))]
                  /\ Respond(r, 500, [error |-> rd])
                  /\ Finally(r, ops, unlinkRaises)
                  /\ UNCHANGED genArgs
             ELSE /\ CallGenerate(r, calls[r], << createUserContent(prompt, part) >>)
                  /\ fsOps' = [fsOps EXCEPT ![r] = ops]
                  /\ UNCHANGED <<resp, disk>>
  /\ UNCHANGED <<req, uploadArgs>>

GenerateFromDocument(r, fault, unlinkRaises) ==
  /\ req[r].route = "/generate-from-document"
  /\ InlineHandler(r, fault, unlinkRaises)

GenerateFromAudio(r, fault, unlinkRaises) ==
  /\ req[r].route = "/generate-from-audio"
  /\ InlineHandler(r, fault, unlinkRaises)

\* ---- settlement of generateContent, on every route -----------------------
\* the rest of the handler after the awaited call: on the text route there
\* is no finally block
Finish(r, unlinkRaises) ==
  IF req[r].route \in MediaRoutes
  THEN Finally(r, fsOps[r], unlinkRaises)
  ELSE /\ pc' = [pc EXCEPT ![r] = "done"]
       /\ UNCHANGED <<disk, fsOps>>

\* a handler that answers with the result object instead of result.text
GenerateReturnsResult(r, t, unlinkRaises) ==
  /\ pc[r] = "awaitGenerate"
  /\ calls' = [calls EXCEPT ![r] = Append(@, Returned("generateContent", t))]
  /\ Respond(r, 200, [output |-> "[object Object]"])
  /\ Finish(r, unlinkRaises)
  /\ UNCHANGED <<req, uploadArgs, genArgs>>

\* the call fulfilled with a result whose text is t: res.json({output: result.text})
GenerateReturns(r, t, unlinkRaises) ==
  /\ pc[r] = "awaitGenerate"
  /\ calls' = [calls EXCEPT ![r] = Append(@, Returned("generateContent", t))]
  /\ Respond(r, 200, [output |-> t])
  /\ Finish(r, unlinkRaises)
  /\ UNCHANGED <<req, uploadArgs, genArgs>>

\* the call rejected with an error of message m: catch, then finally
GenerateRaises(r, m, unlinkRaises) ==
  /\ pc[r] = "awaitGenerate"
  /\ calls' = [calls EXCEPT ![r] = Append(@, Raised("generateContent", m))]
  /\ Respond(r, 500, [error |-> m])
  /\ Finish(r, unlinkRaises)
  /\ UNCHANGED <<req, uploadArgs, genArgs>>

\* ---- specifications ------------------------------------------------------
\* what fs.readFileSync may report for a file that exists
Faults == {Undefined} \cup Msgs

\* the file system reads or fails to read the scratch file, the remote calls
\* fulfil or reject, and fs.unlinkSync completes
Next ==
  \/ \E r \in Reqs, route \in Routes, p \in Prompts, f \in BOOLEAN : Arrive(r, route, p, f)
  \/ \E r \in Reqs : GenerateText(r)
  \/ \E r \in Reqs : GenerateFromImage(r)
  \/ \E r \in Reqs : UploadReturns(r)
  \/ \E r \in Reqs, m \in Msgs : UploadRaises(r, m, FALSE)
  \/ \E r \in Reqs, fault \in Faults : GenerateFromDocument(r, fault, FALSE)
  \/ \E r \in Reqs, fault \in Faults : GenerateFromAudio(r, fault, FALSE)
  \/ \E r \in Reqs, t \in Texts : GenerateReturns(r, t, FALSE)
  \/ \E r \in Reqs, m \in Msgs : GenerateRaises(r, m, FALSE)

Spec == Init /\ [][Next]_vars

\* as Next, and fs.unlinkSync may raise as well (EPERM, EBUSY, EIO)
NextFaults ==
  \/ \E r \in Reqs, route \in Routes, p \in Prompts, f \in BOOLEAN : Arrive(r, route, p, f)
  \/ \E r \in Reqs : GenerateText(r)
  \/ \E r \in Reqs : GenerateFromImage(r)
  \/ \E r \in Reqs : UploadReturns(r)
  \/ \E r \in Reqs, m \in Msgs, u \in BOOLEAN : UploadRaises(r, m, u)
  \/ \E r \in Reqs, fault \in Faults, u \in BOOLEAN : GenerateFromDocument(r, fault, u)
  \/ \E r \in Reqs, fault \in Faults, u \in BOOLEAN : GenerateFromAudio(r, fault, u)
  \/ \E r \in Reqs, t \in Texts, u \in BOOLEAN : GenerateReturns(r, t, u)
  \/ \E r \in Reqs, m \in Msgs, u \in BOOLEAN : GenerateRaises(r, m, u)

SpecFaults == Init /\ [][NextFaults]_vars

TypeOK ==
  /\ pc \in [Reqs -> {"idle", "arrived", "awaitUpload", "awaitGenerate", "done", "threw"}]
  /\ disk \subseteq {ScratchPath(r) : r \in Reqs}
  /\ \A r \in Reqs : resp[r].status \in {0, 200, 400, 500}

\* ---- properties ----------------------------------------------------------
Finished(r) == pc[r] \in {"done", "threw"}
InFlight(r) == pc[r] \in {"arrived", "awaitUpload", "awaitGenerate"}
WithFile(r) == req[r].route \in MediaRoutes /\ req[r].hasFile
Last(s) == s[Len(s)]
HasError(body) == "error" \in DOMAIN body
HasOutput(body) == "output" \in DOMAIN body
RemoteOps == {"uploadFile", "generateContent"}

C2_MissingFile400 ==
  \A r \in Reqs :
    (req[r].route \in MediaRoutes /\ ~req[r].hasFile) =>
      /\ calls[r] = <<>> /\ uploadArgs[r] = <<>> /\ genArgs[r] = <<>>
      /\ pc[r] \in {"arrived", "done"}
      /\ pc[r] = "done" => (resp[r].status = 400 /\ HasError(resp[r].body))

\* a media request with a prompt and no file has been answered
C2_Witness ==
  \E r \in Reqs :
    /\ req[r].route \in MediaRoutes /\ ~req[r].hasFile /\ Truthy(req[r].prompt)
    /\ pc[r] = "done" /\ resp[r].status = 400

\* C3: a /generate-text request whose prompt is missing or empty is answered
\* 400 with an error field and generate is never called for it.
C3_MissingPrompt400 ==
  \A r \in Reqs :
    (req[r].route = "/generate-text" /\ req[r].prompt \in {Undefined, ""}) =>
      /\ calls[r] = <<>> /\ genArgs[r] = <<>>
      /\ pc[r] \in {"arrived", "done"}
      /\ pc[r] = "done" => (resp[r].status = 400 /\ HasError(resp[r].body))

\* a /generate-text request with an empty prompt has been answered
C3_Witness ==
  \E r \in Reqs :
    /\ req[r].route = "/generate-text" /\ req[r].prompt = ""
    /\ pc[r] = "done" /\ resp[r].status = 400

\* C4: when generate (any route) or uploadFile (image route) raised, the
\* response is 500 with body {error: <message of the raised error>}, with no
\* output field.
C4_RemoteError500 ==
  \A r \in Reqs :
    (calls[r] # <<>> /\ Last(calls[r]).ev = "raised" /\ Last(calls[r]).op \in RemoteOps) =>
      /\ resp[r] = [status |-> 500, body |-> [error |-> Last(calls[r]).val]]
      /\ ~HasOutput(resp[r].body)

\* an upload has raised on the image route
C4_Witness ==
  \E r \in Reqs :
    /\ req[r].route = "/generate-from-image"
    /\ calls[r] # <<>> /\ Last(calls[r]) = Raised("uploadFile", "quota exceeded")
    /\ resp[r].status = 500

\* C5: when generate returned a text t, the response is 200 with body
\* {output: t}.
C5_Success200 ==
  \A r \in Reqs :
    (calls[r] # <<>> /\ Last(calls[r]).ev = "returned"
       /\ Last(calls[r]).op = "generateContent" /\ Last(calls[r]).val # Undefined) =>
      resp[r] = [status |-> 200, body |-> [output |-> Last(calls[r]).val]]

\* generate has returned a text on the document route
C5_Witness ==
  \E r \in Reqs :
    /\ req[r].route = "/generate-from-document"
    /\ calls[r] # <<>> /\ Last(calls[r]) = Returned("generateContent", "Seekor kucing.")
    /\ resp[r].status = 200

\* C6: when generate completed without raising and its response carries no
\* text, the response is 500 with an error field, never 200.
C6_NoTextIs500 ==
  \A r \in Reqs :
    (calls[r] # <<>> /\ Last(calls[r]) = Returned("generateContent", Undefined)) =>
      (resp[r].status = 500 /\ HasError(resp[r].body))

\* C7: on a media route the contents sent to generate are one user content
\* whose first part is the text part, holding the route's default prompt when
\* the prompt field is absent and the supplied prompt otherwise, and whose
\* second part is the media part.
C7_PromptFirst ==
  \A r \in Reqs :
    (req[r].route \in MediaRoutes /\ genArgs[r] # <<>>) =>
      LET contents == genArgs[r][1].contents
          parts == contents[1].parts
      IN /\ Len(contents) = 1 /\ Len(parts) = 2
         /\ parts[1] = [text |-> IF req[r].prompt = Undefined
                                 THEN DefaultPrompt(req[r].route)
                                 ELSE req[r].prompt]
         /\ IF req[r].route = "/generate-from-image"
            THEN DOMAIN parts[2] = {"fileData"}
            ELSE DOMAIN parts[2] = {"inlineData"}

\* generate has been called on the audio route for a request without prompt
C7_Witness ==
  \E r \in Reqs :
    /\ req[r].route = "/generate-from-audio" /\ req[r].prompt = Undefined
    /\ genArgs[r] # <<>>

\* C8: every error raised while a request is handled, the one of the
\* scratch-file deletion in the finally block included, is caught inside the
\* handler: no exception leaves a handler.
C8_NoEscape == \A r \in Reqs : pc[r] # "threw"

\* C9: per request, uploadFile and generate are each called at most once, no
\* remote call follows a raised one, on the image route generate is called
\* only after uploadFile returned, and a raised upload ends in the 500
\* response.
C9_SingleAttempt ==
  \A r \in Reqs :
    /\ Len(uploadArgs[r]) <= 1 /\ Len(genArgs[r]) <= 1
    /\ Cardinality({i \in DOMAIN calls[r] : calls[r][i] = Call("uploadFile")}) = Len(uploadArgs[r])
    /\ Cardinality({i \in DOMAIN calls[r] : calls[r][i] = Call("generateContent")}) = Len(genArgs[r])
    /\ \A i \in DOMAIN calls[r] : calls[r][i].ev = "raised" => i = Len(calls[r])
    /\ (req[r].route = "/generate-from-image" /\ genArgs[r] # <<>>) =>
         \E i \in DOMAIN calls[r] :
           /\ calls[r][i].ev = "returned" /\ calls[r][i].op = "uploadFile"
           /\ i + 1 \in DOMAIN calls[r] /\ calls[r][i + 1] = Call("generateContent")
    /\ (calls[r] # <<>> /\ Last(calls[r]).ev = "raised" /\ Last(calls[r]).op = "uploadFile") =>
         (Finished(r) /\ resp[r].status = 500 /\ genArgs[r] = <<>>)

\* an upload has raised and the request is finished without a generate call
C9_Witness ==
  \E r \in Reqs :
    /\ calls[r] # <<>> /\ Last(calls[r]).ev = "raised" /\ Last(calls[r]).op = "uploadFile"
    /\ pc[r] = "done"

\* the response of a request as a function of its own inputs and of the
\* outcomes of its own calls
OwnResponse(r) ==
  IF calls[r] = <<>> \/ Last(calls[r]).ev = "call"
  THEN IF pc[r] = "done"
       THEN [status |-> 400, body |-> [error |-> MissingInput(req[r].route)]]
       ELSE NoResp
  ELSE IF Last(calls[r]).ev = "raised"
       THEN [status |-> 500, body |-> [error |-> Last(calls[r]).val]]
       ELSE IF Last(calls[r]).op = "uploadFile"
            THEN NoResp
            ELSE [status |-> 200, body |-> JsonBody([output |-> Last(calls[r]).val])]

====
